---- MODULE Spec2Model ----
(***************************************************************************)
(* A model of the c-enum crate: the declarative c_enum! macro (src/lib.rs) *)
(* and the attribute entry point expand (src/c_enum.rs).                   *)
(*                                                                         *)
(* An enum declaration is expanded by both entry points into a list of     *)
(* associated constants `pub const F: Self = Self(<expr>)`; the constant   *)
(* expressions are then evaluated as the compiler evaluates the constants  *)
(* of one impl block; the generated conversions, variant_label and Debug   *)
(* are then applied to values of the wrapper.  The inner type is u8, and   *)
(* the declarations are enum-shaped and non-generic.                       *)
(***************************************************************************)
EXTENDS Integers, Sequences, FiniteSets, TLC

VARIABLES
    spec,       \* the enum declaration handed to both entry points
    pc,         \* "decl" -> "expand" -> "compile" -> "run" | "rejected"
    fields,     \* decl_variants: the fields still to declare
    prevs,      \* decl_variants: the list of predecessors (starts with __dummy = 0)
    variants,   \* c_enum!: the constants emitted so far
    xfields,    \* expand: the `fields` vector
    xvariants,  \* expand: the `variants` vector
    dconsts,    \* c_enum!: the evaluated constants
    aconsts,    \* expand: the evaluated constants
    self,       \* the wrapper value the generated methods are called on
    arg,        \* the inner value self was constructed from
    result      \* what the last call on self returned

vars == <<spec, pc, fields, prevs, variants, xfields, xvariants,
          dconsts, aconsts, self, arg, result>>

(***************************************************************************)
(* Bounds and program constants                                            *)
(***************************************************************************)
MaxEntries == 3
MaxLit == 2
MaxVal == 3
TypeMax == 255
RefAdd == 7

FieldNames == <<"A", "B", "C", "D", "E", "F", "G", "H">>

(***************************************************************************)
(* Expressions: an integer literal, or `Self::<to>.0 + <add>`.             *)
(***************************************************************************)
NoValue == [kind |-> "none", n |-> 0, to |-> "", add |-> 0]
Lit(n) == [kind |-> "lit", n |-> n, to |-> "", add |-> 0]
Ref(l, k) == [kind |-> "ref", n |-> 0, to |-> l, add |-> k]

Field(l, e) == [ident |-> l, value |-> e]

LitValues == (0..MaxLit) \cup {TypeMax}

ValueChoices ==
    {NoValue} \cup {Lit(n) : n \in LitValues}
              \cup {Ref(FieldNames[j], RefAdd) : j \in 1..MaxEntries}

\* Every declaration of at most MaxEntries entries, labelled A, B, C, ...
GenericSpecs ==
    UNION {
        {[name |-> "Enum",
          entries |-> [i \in 1..n |-> Field(FieldNames[i], f[i])]]
            : f \in [1..n -> ValueChoices]}
        : n \in 0..MaxEntries}

\* The declarations of tests/basic.rs and of the crate documentation.
Software ==
    [name |-> "Software",
     entries |-> <<Field("CPU_CYCLES", NoValue),
                   Field("INSTRUCTIONS", Lit(2)),
                   Field("CACHE_REFERENCES", NoValue),
                   Field("CACHE_MISSES", NoValue),
                   Field("BRANCH_INSTRUCTIONS", Lit(5)),
                   Field("Lowercase", NoValue)>>]

Duplicates ==
    [name |-> "Duplicates",
     entries |-> <<Field("ITEM1", Lit(2)), Field("ITEM2", Lit(2))>>]

Overlap ==
    [name |-> "Overlap",
     entries |-> <<Field("A1", Lit(2)), Field("A2", NoValue),
                   Field("A3", NoValue), Field("B1", Lit(2)),
                   Field("B2", NoValue), Field("B3", NoValue)>>]

ValueAssignmentEnum ==
    [name |-> "Enum",
     entries |-> <<Field("A", NoValue), Field("B", NoValue),
                   Field("C", Lit(5)), Field("D", NoValue)>>]

TestSpecs == {Software, Duplicates, Overlap, ValueAssignmentEnum}

(***************************************************************************)
(* c_enum!: __c_enum_impl                                                  *)
(***************************************************************************)
\* impl(first_expr): the first of a non-empty list of expressions.
FirstExprLast(exprs) == exprs[Len(exprs)]
FirstExpr(exprs) == Head(exprs)

\* `$( $x, )?`: one expression when the optional value is present.
Opt(e) == IF e.kind = "none" THEN <<>> ELSE <<e>>

\* The constant one decl_variants step emits for `field`, whose predecessor
\* in the second list is `prev`.
DeclConst(field, prev) ==
    Field(field.ident, FirstExpr(Opt(field.value) \o Opt(prev.value) \o <<Lit(0)>>))

\* __c_enum_no_debug: the two lists decl_variants starts from.
DeclStartFromOne(entries) ==
    [fields |-> entries,
     prevs |-> <<Field("__dummy", Lit(1))>> \o entries]
DeclStart(entries) ==
    [fields |-> entries,
     prevs |-> <<Field("__dummy", Lit(0))>> \o entries]

(***************************************************************************)
(* expand: the variant loop                                                *)
(***************************************************************************)
\* The value expression of variant i (1-based) of `entries`.
ExpandValue(entries, i) ==
    IF entries[i].value.kind # "none" THEN entries[i].value
    ELSE IF i = 1 THEN Lit(0)
    ELSE Ref(entries[i - 1].ident, 1)

(***************************************************************************)
(* Evaluation of the constants of one impl block                           *)
(***************************************************************************)
Ok(n) == [ok |-> TRUE, val |-> n, why |-> ""]
Err(w) == [ok |-> FALSE, val |-> 0, why |-> w]

\* The position of the constant named l, 0 when there is none.
IndexOf(consts, l) ==
    IF \E j \in 1..Len(consts) : consts[j].ident = l
    THEN CHOOSE j \in 1..Len(consts) : consts[j].ident = l
    ELSE 0

\* A constant names any constant of the impl block, declared before or after
\* it; a chain of more than Len(consts) references is a cycle.
RECURSIVE EvalExpr(_, _, _)
EvalExpr(consts, e, fuel) ==
    IF e.kind = "lit"
    THEN IF e.n <= TypeMax THEN Ok(e.n) ELSE Err("overflow")
    ELSE LET j == IndexOf(consts, e.to) IN
         IF j = 0 THEN Err("undefined")
         ELSE IF fuel = 0 THEN Err("cycle")
         ELSE LET r == EvalExpr(consts, consts[j].value, fuel - 1) IN
              IF ~r.ok THEN r
              ELSE IF r.val + e.add > TypeMax THEN Err("overflow")
              ELSE Ok(r.val + e.add)

\* An evaluation in which only the constants declared strictly earlier are
\* visible to the expression of constant i.
RECURSIVE EvalEarlier(_, _, _)
EvalEarlier(consts, e, i) ==
    IF e.kind = "lit"
    THEN IF e.n <= TypeMax THEN Ok(e.n) ELSE Err("overflow")
    ELSE LET j == IndexOf(consts, e.to) IN
         IF j = 0 \/ j >= i THEN Err("undefined")
         ELSE LET r == EvalEarlier(consts, consts[j].value, j) IN
              IF ~r.ok THEN r
              ELSE IF r.val + e.add > TypeMax THEN Err("overflow")
              ELSE Ok(r.val + e.add)

EvalConstsEarlier(consts) ==
    [i \in 1..Len(consts) |-> EvalEarlier(consts, consts[i].value, i)]
EvalConsts(consts) ==
    [i \in 1..Len(consts) |-> EvalExpr(consts, consts[i].value, Len(consts))]

AllOk(cs) == \A i \in 1..Len(cs) : cs[i].ok

(***************************************************************************)
(* c_enum!: the generated conversions, variant_label and Debug             *)
(***************************************************************************)
None == [some |-> FALSE, str |-> ""]
Some(s) == [some |-> TRUE, str |-> s]

\* The first match arm whose guard `Self::<field>.0 == *value` holds, 0 when
\* none does (the arms are in declaration order).
FirstArm(consts, v) ==
    IF \E i \in 1..Len(consts) : consts[i].val = v
    THEN CHOOSE i \in 1..Len(consts) :
            /\ consts[i].val = v
            /\ \A j \in 1..(i - 1) : consts[j].val # v
    ELSE 0

\* impl From<$inner> for $name
DeclFromLow(v) == [ty |-> "decl", inner |-> v % 128]
DeclFrom(v) == [ty |-> "decl", inner |-> v]

\* impl From<$name> for $inner
DeclInto(w) == w.inner

\* CEnum::variant_label: every arm's body is stringify!($name).
VariantLabelHead(name, consts, w) ==
    IF consts # <<>> /\ consts[1].val = w.inner THEN Some(name) ELSE None
VariantLabel(name, consts, w) ==
    LET i == FirstArm(consts, w.inner) IN
    IF i # 0 THEN Some(name) ELSE None

\* f.debug_tuple(name).field(value).finish()
DebugTuple(name, v) == name \o "(" \o ToString(v) \o ")"

\* impl Debug for $name, on top of variant_label
DeclDebug(name, consts, w) ==
    LET l == VariantLabel(name, consts, w) IN
    IF l.some THEN name \o "::" \o l.str
    ELSE DebugTuple(name, w.inner)

(***************************************************************************)
(* expand: the generated new, conversions and Debug                        *)
(***************************************************************************)
\* pub const fn new(value) -> Self
New(v) == [ty |-> "attr", inner |-> v]

\* impl From<#repr> for #ident
AttrFrom(v) == New(v)

\* impl From<#ident> for #repr
AttrInto(w) == w.inner

\* field_names: "{ident}::{field}" for every field
FieldNameLits(ident, fs) == [i \in 1..Len(fs) |-> ident \o "::" \o fs[i]]

\* impl Debug for #ident, the arms inlined
AttrDebug(ident, fs, consts, w) ==
    LET i == FirstArm(consts, w.inner) IN
    IF i # 0 THEN FieldNameLits(ident, fs)[i]
    ELSE DebugTuple(ident, w.inner)

(***************************************************************************)
(* The state machine: generation                                           *)
(***************************************************************************)
NoSelf == [ty |-> "none", inner |-> 0]
NoResult == [op |-> "none", some |-> FALSE, str |-> "", inner |-> 0]

Init ==
    /\ spec \in GenericSpecs \cup TestSpecs
    /\ pc = "decl"
    /\ fields = DeclStart(spec.entries).fields
    /\ prevs = DeclStart(spec.entries).prevs
    /\ variants = <<>>
    /\ xfields = <<>>
    /\ xvariants = <<>>
    /\ dconsts = <<>>
    /\ aconsts = <<>>
    /\ self = NoSelf
    /\ arg = 0
    /\ result = NoResult

\* One recursion of impl(decl_variants): declare the head field, drop the
\* heads of both lists.
DeclVariants ==
    /\ pc = "decl"
    /\ fields # <<>>
    /\ variants' = Append(variants, DeclConst(Head(fields), Head(prevs)))
    /\ fields' = Tail(fields)
    /\ prevs' = Tail(prevs)
    /\ UNCHANGED <<spec, pc, xfields, xvariants, dconsts, aconsts, self, arg, result>>

\* impl(decl_variants) with no field left expands to nothing.
DeclVariantsEnd ==
    /\ pc = "decl"
    /\ fields = <<>>
    /\ pc' = "expand"
    /\ UNCHANGED <<spec, fields, prevs, variants, xfields, xvariants,
                   dconsts, aconsts, self, arg, result>>

\* One iteration of expand's loop over data.variants.
ExpandVariant ==
    /\ pc = "expand"
    /\ Len(xvariants) < Len(spec.entries)
    /\ LET i == Len(xvariants) + 1 IN
        /\ xvariants' = Append(xvariants,
                               Field(spec.entries[i].ident, ExpandValue(spec.entries, i)))
        /\ xfields' = Append(xfields, spec.entries[i].ident)
    /\ UNCHANGED <<spec, pc, fields, prevs, variants, dconsts, aconsts, self, arg, result>>

ExpandEnd ==
    /\ pc = "expand"
    /\ Len(xvariants) = Len(spec.entries)
    /\ pc' = "compile"
    /\ UNCHANGED <<spec, fields, prevs, variants, xfields, xvariants,
                   dconsts, aconsts, self, arg, result>>

\* The compiler evaluates the constants of both generated impl blocks.
Compile ==
    /\ pc = "compile"
    /\ dconsts' = EvalConsts(variants)
    /\ aconsts' = EvalConsts(xvariants)
    /\ pc' = IF AllOk(dconsts') \/ AllOk(aconsts') THEN "run" ELSE "rejected"
    /\ UNCHANGED <<spec, fields, prevs, variants, xfields, xvariants, self, arg, result>>

(***************************************************************************)
(* The state machine: calls on the generated types                         *)
(***************************************************************************)
FromValues == (0..MaxVal) \cup {TypeMax}

Ret(op, some, str, inner) == [op |-> op, some |-> some, str |-> str, inner |-> inner]

\* $name::from(v)
DeclFromInner ==
    /\ pc = "run" /\ AllOk(dconsts)
    /\ \E v \in FromValues :
        /\ self' = DeclFrom(v)
        /\ arg' = v
    /\ result' = NoResult
    /\ UNCHANGED <<spec, pc, fields, prevs, variants, xfields, xvariants, dconsts, aconsts>>

\* $name::<FIELD>, a declared constant
DeclUseConst ==
    /\ pc = "run" /\ AllOk(dconsts)
    /\ \E i \in 1..Len(dconsts) :
        /\ self' = [ty |-> "decl", inner |-> dconsts[i].val]
        /\ arg' = dconsts[i].val
    /\ result' = NoResult
    /\ UNCHANGED <<spec, pc, fields, prevs, variants, xfields, xvariants, dconsts, aconsts>>

DeclIntoInner ==
    /\ pc = "run" /\ self.ty = "decl"
    /\ result' = Ret("into", FALSE, "", DeclInto(self))
    /\ UNCHANGED <<spec, pc, fields, prevs, variants, xfields, xvariants,
                   dconsts, aconsts, self, arg>>

DeclVariantLabel ==
    /\ pc = "run" /\ self.ty = "decl"
    /\ LET l == VariantLabel(spec.name, dconsts, self) IN
        result' = Ret("variant_label", l.some, l.str, 0)
    /\ UNCHANGED <<spec, pc, fields, prevs, variants, xfields, xvariants,
                   dconsts, aconsts, self, arg>>

DeclDebugFmt ==
    /\ pc = "run" /\ self.ty = "decl"
    /\ result' = Ret("fmt", FALSE, DeclDebug(spec.name, dconsts, self), 0)
    /\ UNCHANGED <<spec, pc, fields, prevs, variants, xfields, xvariants,
                   dconsts, aconsts, self, arg>>

\* #ident::new(v)
AttrNew ==
    /\ pc = "run" /\ AllOk(aconsts)
    /\ \E v \in FromValues :
        /\ self' = New(v)
        /\ arg' = v
    /\ result' = NoResult
    /\ UNCHANGED <<spec, pc, fields, prevs, variants, xfields, xvariants, dconsts, aconsts>>

\* #ident::from(v)
AttrFromInner ==
    /\ pc = "run" /\ AllOk(aconsts)
    /\ \E v \in FromValues :
        /\ self' = AttrFrom(v)
        /\ arg' = v
    /\ result' = NoResult
    /\ UNCHANGED <<spec, pc, fields, prevs, variants, xfields, xvariants, dconsts, aconsts>>

\* #ident::<FIELD>, a declared constant
AttrUseConst ==
    /\ pc = "run" /\ AllOk(aconsts)
    /\ \E i \in 1..Len(aconsts) :
        /\ self' = [ty |-> "attr", inner |-> aconsts[i].val]
        /\ arg' = aconsts[i].val
    /\ result' = NoResult
    /\ UNCHANGED <<spec, pc, fields, prevs, variants, xfields, xvariants, dconsts, aconsts>>

AttrIntoInner ==
    /\ pc = "run" /\ self.ty = "attr"
    /\ result' = Ret("into", FALSE, "", AttrInto(self))
    /\ UNCHANGED <<spec, pc, fields, prevs, variants, xfields, xvariants,
                   dconsts, aconsts, self, arg>>

AttrDebugFmt ==
    /\ pc = "run" /\ self.ty = "attr"
    /\ result' = Ret("fmt", FALSE, AttrDebug(spec.name, xfields, aconsts, self), 0)
    /\ UNCHANGED <<spec, pc, fields, prevs, variants, xfields, xvariants,
                   dconsts, aconsts, self, arg>>

Next ==
    \/ DeclVariants
    \/ DeclVariantsEnd
    \/ ExpandVariant
    \/ ExpandEnd
    \/ Compile
    \/ DeclFromInner
    \/ DeclUseConst
    \/ DeclIntoInner
    \/ DeclVariantLabel
    \/ DeclDebugFmt
    \/ AttrNew
    \/ AttrFromInner
    \/ AttrUseConst
    \/ AttrIntoInner
    \/ AttrDebugFmt

Spec == Init /\ [][Next]_vars

(***************************************************************************)
(* Properties                                                              *)
(***************************************************************************)
Entries == spec.entries
N == Len(Entries)
Compiled == pc \in {"run", "rejected"}
DeclBuilt == Compiled /\ AllOk(dconsts)
AttrBuilt == Compiled /\ AllOk(aconsts)
IsAuto(i) == Entries[i].value.kind = "none"
Matching(consts, v) == {i \in 1..Len(consts) : consts[i].val = v}
LeastOf(S) == CHOOSE i \in S : \A j \in S : i <= j

\* C1: in an enum generated by c_enum!, every entry after the first that has
\* no explicit value resolves to the value of the entry before it plus one.
C1_AutoIncrement ==
    DeclBuilt =>
        \A i \in 2..N : IsAuto(i) => dconsts[i].val = dconsts[i - 1].val + 1

\* C2: variant_label on a declared constant of a c_enum! enum returns
\* Some(label), the label being the declared name of an entry whose resolved
\* value equals the stored value.
C2_LabelIsEntryName ==
    (/\ pc = "run" /\ self.ty = "decl" /\ result.op = "variant_label"
     /\ Matching(dconsts, self.inner) # {})
        => /\ result.some
           /\ result.str \in {Entries[i].ident : i \in Matching(dconsts, self.inner)}

\* C3: when several declared entries resolve to the stored value,
\* variant_label returns the label of the one declared first.
C3_FirstDeclaredWins ==
    (/\ pc = "run" /\ self.ty = "decl" /\ result.op = "variant_label"
     /\ Cardinality(Matching(dconsts, self.inner)) >= 2)
        => result.str = Entries[LeastOf(Matching(dconsts, self.inner))].ident

\* C4: duplicate values are legal: no entry is dropped, a literal entry keeps
\* its literal whatever the earlier entries hold, and two entries that are the
\* same number of auto-assigned steps after explicit entries of equal value
\* are equal.
DuplicatesKept(consts) ==
    /\ Len(consts) = N
    /\ \A i \in 1..N : Entries[i].value.kind = "lit" => consts[i].val = Entries[i].value.n
    /\ \A i, j \in 1..N : \A k \in 0..N :
        (/\ ~IsAuto(i) /\ ~IsAuto(j)
         /\ consts[i].val = consts[j].val
         /\ i + k <= N /\ j + k <= N
         /\ \A d \in 1..k : IsAuto(i + d) /\ IsAuto(j + d))
            => consts[i + k].val = consts[j + k].val

C4_DuplicatesLegal ==
    /\ DeclBuilt => DuplicatesKept(dconsts)
    /\ AttrBuilt => DuplicatesKept(aconsts)

\* a c_enum! enum with two explicit entries of equal value, each followed by
\* an auto-assigned entry, has been generated
C4_Witness ==
    /\ pc = "run" /\ AllOk(dconsts)
    /\ \E i, j \in 1..N :
        /\ i < j /\ j < N
        /\ ~IsAuto(i) /\ ~IsAuto(j) /\ IsAuto(i + 1) /\ IsAuto(j + 1)
        /\ dconsts[i].val = dconsts[j].val

\* C5: converting a value of the inner type into the wrapper and back yields
\* the value, in both entry points.
C5_RoundTrip ==
    (pc = "run" /\ result.op = "into") => result.inner = arg

\* a value matching no declared entry went through From and back
C5_Witness ==
    /\ pc = "run" /\ result.op = "into" /\ self.ty = "decl"
    /\ N > 0
    /\ Matching(dconsts, arg) = {}
    /\ arg = TypeMax

\* C6: variant_label returns None exactly when no declared entry's resolved
\* value equals the stored value.
C6_NoneIffNoMatch ==
    (pc = "run" /\ self.ty = "decl" /\ result.op = "variant_label")
        => (~result.some <=> Matching(dconsts, self.inner) = {})

\* variant_label returned None for a value no entry of a non-empty enum holds
C6_Witness ==
    /\ pc = "run" /\ self.ty = "decl" /\ result.op = "variant_label"
    /\ N > 1
    /\ Matching(dconsts, self.inner) = {}
    /\ ~result.some

\* C7: Debug renders "<EnumName>::<Label>" with the label of the first entry
\* holding the stored value, and the debug tuple of the type name and the
\* stored value when no entry holds it, in both entry points.
DebugText(consts) ==
    IF Matching(consts, self.inner) # {}
    THEN spec.name \o "::" \o Entries[LeastOf(Matching(consts, self.inner))].ident
    ELSE spec.name \o "(" \o ToString(self.inner) \o ")"

C7_DebugRendering ==
    (pc = "run" /\ result.op = "fmt")
        => result.str = DebugText(IF self.ty = "decl" THEN dconsts ELSE aconsts)

\* C8: a first entry with no explicit value resolves to 0 in both entry
\* points, whatever the later entries declare.
C8_FirstIsZero ==
    (Compiled /\ N > 0 /\ IsAuto(1))
        => dconsts[1] = Ok(0) /\ aconsts[1] = Ok(0)

\* an enum whose first entry is auto-assigned and whose second is explicit
C8_Witness ==
    /\ pc = "run" /\ N > 1 /\ IsAuto(1) /\ ~IsAuto(2)
    /\ dconsts[2].ok /\ dconsts[2].val # 0

\* C9: both entry points assign the same resolved value to every entry.
C9_EntryPointsAgree ==
    (DeclBuilt /\ AttrBuilt) => \A i \in 1..N : dconsts[i].val = aconsts[i].val

\* C10 (as stated): an explicit `Self::<E>.0 + k` resolves to E's value plus
\* k when E is declared strictly earlier, and fails when E is declared later.
RefersTo(i, j) ==
    /\ Entries[i].value.kind = "ref"
    /\ j = IndexOf(Entries, Entries[i].value.to)

C10_OnlyEarlierVisible ==
    Compiled =>
        \A i \in 1..N : \A j \in 1..N :
            RefersTo(i, j) =>
                IF j < i
                THEN (dconsts[j].ok /\ dconsts[j].val + Entries[i].value.add <= TypeMax)
                        => dconsts[i] = Ok(dconsts[j].val + Entries[i].value.add)
                ELSE ~dconsts[i].ok

\* C10 (amended): an explicit `Self::<E>.0 + k` resolves to E's value plus k
\* whenever E is a declared entry with a value, earlier or later; it fails
\* when E is not declared.
C10_AnyDeclaredVisible ==
    Compiled =>
        \A i \in 1..N :
            Entries[i].value.kind = "ref" =>
                LET j == IndexOf(Entries, Entries[i].value.to) IN
                IF j = 0 THEN dconsts[i] = Err("undefined")
                ELSE (dconsts[j].ok /\ dconsts[j].val + Entries[i].value.add <= TypeMax)
                        => dconsts[i] = Ok(dconsts[j].val + Entries[i].value.add)

\* an entry naming a later entry has been given that entry's value plus k
C10_Witness ==
    /\ pc = "run"
    /\ \E i, j \in 1..N :
        /\ RefersTo(i, j) /\ i < j
        /\ dconsts[i].ok /\ dconsts[i].val = dconsts[j].val + RefAdd
====
